---- MODULE Spec2Model ----
(***************************************************************************)
(* Resolution engine of the landing-page generator (core/renderer.py) over *)
(* the canonical document (core/schemas.py).                               *)
(*                                                                         *)
(* The markup returned by Jinja2 is represented by the template file that  *)
(* was loaded together with the keyword arguments handed to                *)
(* template.render(): two results are equal when the same file is rendered *)
(* with the same context.                                                  *)
(*                                                                         *)
(* Optional values (Python None) are encoded as sequences: None is <<>>    *)
(* and a present value x is <<x>>.                                         *)
(***************************************************************************)
EXTENDS Integers, Sequences, FiniteSets, TLC

VARIABLES
    data,           \* the canonical document held by the caller
    templates_dir,  \* the template files on disk
    last,           \* the last operation and what it returned or raised
    current_year,   \* datetime.now().year
    prev,           \* history: an earlier render_landing call, kept to
                    \* compare it with a later one
    pipe,           \* LandingPipeline.run: position, canonical document,
                    \* error list and result
    globals,        \* module-level names: renderer._renderer,
                    \* logging_config._configured, the project logger
    threads         \* position and locals of every running thread

vars ==
    <<data, templates_dir, last, current_year, prev, pipe, globals, threads>>

None == <<>>
Some(x) == <<x>>
Val(o) == o[1]

\* the module-level names as their modules define them: no renderer yet
\* (renderer.py), logging not configured (logging_config.py) and the
\* project logger without a level of its own
ModuleState ==
    [_renderer |-> None, _configured |-> FALSE, level |-> "NOTSET"]

NoThreads == <<>>

----------------------------------------------------------------------------
(* Bounds of the exploration *)

\* requested variant ids range over -NegDepth .. MaxVariantArg
NegDepth == 1
MaxVariantArg == 4
MaxTicks == 1
MaxVersionLen == 5
MaxPad == 1
\* threads that share the renderer, and calls each of them makes
MaxThreads == 2
MaxCalls == 2

(* Program constants *)

MaxHeadlines == 3
MaxCtas == 3
VariantIdLe == 10

----------------------------------------------------------------------------
(* core/schemas.py *)

TemplateType == {"saas", "app", "agency"}

\* template values a caller can pass or assign: the three literals, a value
\* unknown to this version, and the empty string
TemplateValues == TemplateType \cup {"blog", ""}

HeroHeadline == "Welcome to TestProduct"
HeroCta == "Get Started"
AltHeadlines == {"Alt One", "Alt Two"}
AltCtas == <<"Try It Free", "Start Now", "Join Us">>

SeqsUpTo(S, n) == UNION {[1..m -> S] : m \in 0..n}

\* ContentVariants: two lists of at most three non-empty strings each, with
\* no constraint between their lengths
ContentVariants ==
    [headlines : SeqsUpTo(AltHeadlines, MaxHeadlines),
     ctas : {SubSeq(AltCtas, 1, m) : m \in 0..MaxCtas}]

max_variant_id(variants) ==
    IF variants.headlines # <<>> THEN Len(variants.headlines) ELSE 0

ToneType == {"professional", "friendly", "bold", "minimal"}

SectionNames ==
    {"pricing", "faq", "logos", "screenshots", "feature_grid", "stats"}

\* SectionsConfig(): the field defaults
DefaultSections ==
    [pricing |-> FALSE, faq |-> FALSE, logos |-> FALSE,
     screenshots |-> FALSE, feature_grid |-> TRUE, stats |-> TRUE]

\* six independent booleans
SectionsConfig == [SectionNames -> BOOLEAN]

FixtureFeatures ==
    <<[title |-> "Feature One", icon |-> "rocket"],
      [title |-> "Feature Two", icon |-> "shield"],
      [title |-> "Feature Three", icon |-> "zap"]>>

FaqItem == [question |-> "Test Question?", answer |-> "Test Answer."]
PricingPlan == [name |-> "Pro", price |-> "49"]
ScreenshotPrompt == "main dashboard view"

\* LandingContent with the A/B variants ranging over ContentVariants and the
\* other fields at their defaults
LandingContent ==
    [hero : [headline : {HeroHeadline}, cta_text : {HeroCta}],
     variants : ContentVariants,
     features : {FixtureFeatures},
     sections : {DefaultSections},
     faq_items : {<<>>},
     pricing_plans : {<<>>}]

VariantArgs == (0 - NegDepth)..MaxVariantArg

\* RenderConfig as validated at construction or load: a known template
\* type and 0 <= variant_id <= 10
RenderConfig ==
    [template_type : TemplateType,
     variant_id : {v \in VariantArgs : v >= 0 /\ v <= VariantIdLe}]

\* strings that are split or compared character by character are sequences
\* of one-character strings
SCHEMA_VERSION == <<"1", ".", "2", ".", "1">>

\* GenerationMeta(): the running schema version, no step logged
DefaultMeta ==
    [schema_version |-> SCHEMA_VERSION, pipeline_steps |-> <<>>]

\* AssetSlots(): every slot empty
DefaultAssets ==
    [hero_image_prompt |-> None, screenshot_prompts |-> <<>>]

FixtureProject == [product_name |-> "TestProduct", tone |-> "professional"]

\* a brand identity as a brand stage returns it
FixtureBrand ==
    [colors |-> [primary |-> "#6366F1", accent |-> "#F59E0B"],
     fonts |-> [heading |-> "Inter", body |-> "Inter"],
     tone_rules |-> <<"Be clear", "Be concise", "Focus on benefits">>]

\* DefaultBrand.IDENTITY
DefaultBrandIdentity ==
    [colors |-> [primary |-> "#6366F1", accent |-> "#F59E0B"],
     fonts |-> [heading |-> "Inter", body |-> "Inter"],
     tone_rules |-> <<"Be clear and concise", "Focus on user benefits",
                      "Use active voice">>]

\* the documents that construction or loading yields, with the content
\* variants and the render directives ranging over their types
CanonicalData ==
    [meta : {DefaultMeta},
     project : {FixtureProject},
     brand : {Some(FixtureBrand)},
     content : {None} \cup {Some(c) : c \in LandingContent},
     assets : {DefaultAssets},
     render : RenderConfig]

----------------------------------------------------------------------------
(* core/errors.py *)

MISSING_CONTENT == "E303"
TEMPLATE_NOT_FOUND == "E301"

\* RenderError.__init__ passes step="render" to PipelineError; `template` is
\* the details entry (None when the constructor gets no template)
RenderError(code, template, calls) ==
    [status |-> "raise", error |-> "RenderError", code |-> code,
     step |-> "render", details |-> [template |-> template],
     calls |-> calls]

----------------------------------------------------------------------------
(* core/renderer.py *)

TEMPLATE_FILES ==
    [t \in TemplateType |-> t \o ".html.j2"]

\* dict order of TEMPLATE_FILES.keys()
TemplateOrder == <<"saas", "app", "agency">>

AllTemplateFiles == {TEMPLATE_FILES[t] : t \in TemplateType}

\* the templates directory read by the Jinja2 FileSystemLoader: complete, or
\* holding the default template only
TemplateDirs == {AllTemplateFiles, {"saas.html.j2"}}

\* Python truthiness of an optional string: None and "" are falsy
Truthy(o) == o # None /\ Val(o) # ""

\* mutant: the per-call override is ignored
SelectTemplateType_DocOnly(d, template_override) ==
    d.render.template_type

\* mutant: the shared renderer keeps the template type of its last resolution
SelectTemplateType_Cached(d, template_override) ==
    IF last.op = "render_landing" /\ last.out.status = "return"
    THEN last.out.template_type
    ELSE IF Truthy(template_override)
         THEN Val(template_override)
         ELSE d.render.template_type

\* template_type = template_override or data.render.template_type
SelectTemplateType(d, template_override) ==
    IF Truthy(template_override)
    THEN Val(template_override)
    ELSE d.render.template_type

\* mutant: no default, the file name is built from the value itself
TemplateFile_NoDefault(template_type) ==
    template_type \o ".html.j2"

\* template_file = TEMPLATE_FILES.get(template_type, "saas.html.j2")
TemplateFile(template_type) ==
    IF template_type \in DOMAIN TEMPLATE_FILES
    THEN TEMPLATE_FILES[template_type]
    ELSE "saas.html.j2"

\* mutant: `variant_override or data.render.variant_id`, an override of 0
\* is taken as missing
RequestedVariant_Or(d, variant_override) ==
    IF variant_override # None /\ Val(variant_override) # 0
    THEN Val(variant_override)
    ELSE d.render.variant_id

\* variant_id = variant_override if variant_override is not None
\*              else data.render.variant_id
RequestedVariant(d, variant_override) ==
    IF variant_override # None
    THEN Val(variant_override)
    ELSE d.render.variant_id

\* mutant: `>=` instead of `>`, the last variant is clamped away
_clamp_variant_id_Ge(variant_id, variants) ==
    IF variant_id = 0 THEN 0
    ELSE IF variant_id >= max_variant_id(variants) THEN 0
    ELSE variant_id

_clamp_variant_id(variant_id, variants) ==
    IF variant_id = 0 THEN 0
    ELSE IF variant_id > max_variant_id(variants) THEN 0
    ELSE variant_id

_resolve_variant(default, variants, variant_id) ==
    IF variant_id = 0 \/ variants = <<>> THEN default
    ELSE LET idx == variant_id - 1
         IN  IF 0 <= idx /\ idx < Len(variants)
             THEN variants[idx + 1]
             ELSE default

TONE_STYLES ==
    [professional |-> [hero_size |-> "text-5xl md:text-6xl",
                       cta_style |-> "rounded-lg"],
     friendly |-> [hero_size |-> "text-4xl md:text-5xl",
                   cta_style |-> "rounded-full"],
     bold |-> [hero_size |-> "text-6xl md:text-7xl font-black",
               cta_style |-> "rounded-none uppercase tracking-wider"],
     minimal |-> [hero_size |-> "text-4xl md:text-5xl font-light",
                  cta_style |-> "rounded-sm border"]]

\* tone_style = TONE_STYLES.get(data.project.tone, TONE_STYLES["professional"])
ToneStyle(tone) ==
    IF tone \in DOMAIN TONE_STYLES
    THEN TONE_STYLES[tone]
    ELSE TONE_STYLES["professional"]

\* brand = data.brand or DefaultBrand.IDENTITY
ContextBrand(d) ==
    IF d.brand # None THEN Val(d.brand) ELSE DefaultBrandIdentity

\* mutant: the SectionsConfig() defaults are always handed to the template
ContextSections_Defaults(content) == DefaultSections

\* sections = data.content.sections or SectionsConfig(); a SectionsConfig
\* instance is always truthy
ContextSections(content) == content.sections

\* assets = data.assets or AssetSlots(); likewise always the document's
ContextAssets(d) == d.assets

\* mutant: the requested id is resolved instead of the clamped one
ResolveArg_Requested(variant_id, effective_variant_id) == variant_id

\* the variant id handed to both _resolve_variant calls
ResolveArg(variant_id, effective_variant_id) == effective_variant_id

\* render_landing after the content check: template lookup, clamp,
\* headline/CTA resolution and the call of template.render
RenderWithContent(d, dir, template_override, variant_override) ==
    LET content == Val(d.content)
        template_type == SelectTemplateType(d, template_override)
        template_file == TemplateFile(template_type)
        variant_id == RequestedVariant(d, variant_override)
        effective_variant_id ==
            _clamp_variant_id(variant_id, content.variants)
        arg == ResolveArg(variant_id, effective_variant_id)
        headline ==
            _resolve_variant(content.hero.headline,
                             content.variants.headlines, arg)
        cta_text ==
            _resolve_variant(content.hero.cta_text,
                             content.variants.ctas, arg)
    IN  IF template_file \notin dir
        THEN RenderError(TEMPLATE_NOT_FOUND, Some(template_file), <<"get_template">>)
        ELSE [status |-> "return",
              html |-> [template |-> template_file,
                        project |-> d.project,
                        brand |-> ContextBrand(d),
                        content |-> content,
                        headline |-> headline,
                        cta_text |-> cta_text,
                        current_year |-> current_year,
                        sections |-> ContextSections(content),
                        assets |-> ContextAssets(d),
                        tone |-> d.project.tone,
                        tone_style |-> ToneStyle(d.project.tone)],
              template_type |-> template_type,
              variant_id |-> variant_id,
              effective_variant_id |-> effective_variant_id,
              warned |-> (effective_variant_id # variant_id),
              calls |-> <<"get_template", "_clamp_variant_id",
                          "_resolve_variant", "_resolve_variant",
                          "render">>]

\* mutant: the template is looked up before the content check
render_landing_LookupFirst(d, dir, template_override, variant_override) ==
    LET template_file ==
            TemplateFile(SelectTemplateType(d, template_override))
    IN  IF template_file \notin dir
        THEN RenderError(TEMPLATE_NOT_FOUND, Some(template_file),
                         <<"get_template">>)
        ELSE IF d.content = None
        THEN RenderError(MISSING_CONTENT, None, <<"get_template">>)
        ELSE RenderWithContent(d, dir, template_override, variant_override)

render_landing(d, dir, template_override, variant_override) ==
    IF d.content = None
    THEN RenderError(MISSING_CONTENT, None, <<>>)
    ELSE RenderWithContent(d, dir, template_override, variant_override)

\* key = f"{template_type}_v{i}"
Key(template_type, i) == template_type \o "_v" \o ToString(i)

\* num_variants = len(headlines) when content and headlines are non-empty
NumVariants(d) ==
    IF d.content # None /\ Val(d.content).variants.headlines # <<>>
    THEN Len(Val(d.content).variants.headlines)
    ELSE 0

\* mutant: range(1, num_variants), the last variant is not rendered
BulkVariantIds_Short(num_variants) ==
    <<0>> \o [i \in 1..(num_variants - 1) |-> i]

\* variant 0, then range(1, num_variants + 1)
BulkVariantIds(num_variants) ==
    <<0>> \o [i \in 1..num_variants |-> i]

\* the (template, variant) pairs in the order the two loops visit them
BulkPairs(d) ==
    LET ids == BulkVariantIds(NumVariants(d))
        n == Len(ids)
    IN  [k \in 1..(Len(TemplateOrder) * n) |->
            <<TemplateOrder[((k - 1) \div n) + 1], ids[((k - 1) % n) + 1]>>]

\* mutant: the template of the loop is not passed on
BulkEntry_NoTemplate(d, dir, template_type, i) ==
    render_landing(d, dir, None, Some(i))

\* results[key] = renderer.render_landing(data, template_type, i)
BulkEntry(d, dir, template_type, i) ==
    render_landing(d, dir, Some(template_type), Some(i))

RECURSIVE BulkLoop(_, _, _, _)
BulkLoop(d, dir, pairs, results) ==
    IF pairs = <<>>
    THEN [status |-> "return", results |-> results]
    ELSE LET t == Head(pairs)[1]
             i == Head(pairs)[2]
             r == BulkEntry(d, dir, t, i)
         IN  IF r.status = "raise"
             THEN r
             ELSE BulkLoop(d, dir, Tail(pairs),
                           (Key(t, i) :> r.html) @@ results)

render_all_variants(d, dir) == BulkLoop(d, dir, BulkPairs(d), <<>>)

----------------------------------------------------------------------------
(* State machine *)

OptTemplate == {None} \cup {Some(t) : t \in TemplateValues}
OptVariant == {None} \cup {Some(v) : v \in VariantArgs}

NoCall == [op |-> "none"]

Years == 2026..(2026 + MaxTicks)

Idle == [pc |-> "idle"]

Init ==
    /\ data \in CanonicalData
    /\ templates_dir \in TemplateDirs
    /\ last = NoCall
    /\ current_year = 2026
    /\ prev = NoCall
    /\ pipe = Idle
    /\ globals = ModuleState
    /\ threads = NoThreads

\* a caller of the module-level render_landing
RenderLanding ==
    \E t \in OptTemplate, v \in OptVariant :
        /\ last' = [op |-> "render_landing",
                    template_override |-> t,
                    variant_override |-> v,
                    out |-> render_landing(data, templates_dir, t, v)]
        /\ UNCHANGED <<data, templates_dir, current_year, prev, pipe,
                       globals, threads>>

RenderAllVariants ==
    /\ last' = [op |-> "render_all_variants",
                out |-> render_all_variants(data, templates_dir)]
    /\ UNCHANGED <<data, templates_dir, current_year, prev, pipe,
                   globals, threads>>

\* data.render.variant_id = v: RenderConfig does not validate assignments,
\* so any integer is stored.  The caller has consumed the previous result.
SetVariantId ==
    \E v \in VariantArgs :
        /\ data' = [data EXCEPT !.render.variant_id = v]
        /\ last' = NoCall
        /\ prev' = NoCall
        /\ UNCHANGED <<templates_dir, current_year, pipe, globals, threads>>

\* data.render.template_type = t, likewise unvalidated
SetTemplateType ==
    \E t \in TemplateType \cup {"blog"} :
        /\ data' = [data EXCEPT !.render.template_type = t]
        /\ last' = NoCall
        /\ prev' = NoCall
        /\ UNCHANGED <<templates_dir, current_year, pipe, globals, threads>>

Next ==
    \/ RenderLanding
    \/ RenderAllVariants
    \/ SetVariantId
    \/ SetTemplateType

Spec == Init /\ [][Next]_vars

----------------------------------------------------------------------------
(* Properties of render_landing *)

\* the last operation was a render_landing call that returned markup
Rendered == last.op = "render_landing" /\ last.out.status = "return"

\* the variant id the last render_landing call asked for
Requested ==
    IF last.variant_override # None
    THEN Val(last.variant_override)
    ELSE data.render.variant_id

Hero == Val(data.content).hero
Variants == Val(data.content).variants

\* C1: with k alternate headlines, id 0 renders hero.headline, id v in 1..k
\* renders variants.headlines[v-1], and an id above k renders the headline
\* that id 0 renders.
C1_VariantHeadline ==
    Rendered =>
        LET k == Len(Variants.headlines)
            v == Requested
            zero == render_landing(data, templates_dir,
                                   last.template_override, Some(0))
        IN  /\ v = 0 => last.out.html.headline = Hero.headline
            /\ v \in 1..k =>
                   last.out.html.headline = Variants.headlines[v]
            /\ v > k =>
                   /\ zero.status = "return"
                   /\ last.out.html.headline = zero.html.headline
                   /\ last.out.html.headline = Hero.headline

C1_Witness ==
    /\ Rendered
    /\ Len(Variants.headlines) = 2
    /\ Requested = 2
    /\ last.out.html.headline = "Alt Two"
    /\ Variants.headlines[1] = "Alt One"

\* C2: for every requested id v > 0 the rendered CTA is variants.ctas[v-1]
\* whenever that index exists in ctas, whatever the number of alternate
\* headlines, and hero.cta_text otherwise.
C2_CtaByOwnIndex ==
    (Rendered /\ Requested > 0) =>
        last.out.html.cta_text =
            IF Requested <= Len(Variants.ctas)
            THEN Variants.ctas[Requested]
            ELSE Hero.cta_text

\* C3: whenever the clamped effective id is 0, the rendered headline is
\* hero.headline and the rendered CTA is hero.cta_text.
C3_ClampConsistency ==
    (Rendered /\ last.out.effective_variant_id = 0) =>
        /\ last.out.html.headline = Hero.headline
        /\ last.out.html.cta_text = Hero.cta_text

C3_Witness ==
    /\ Rendered
    /\ Requested = 2
    /\ Len(Variants.headlines) = 1
    /\ Len(Variants.ctas) = 3
    /\ last.out.effective_variant_id = 0
    /\ last.out.warned

\* C4: an id outside 0..max_variant_id (above it, or negative) is reported
\* as effective id 0 with a clamp warning, an id inside is returned unchanged
\* without warning, and the effective id is 0 exactly when the resolution
\* falls back to the default values.
C4_ClampOutOfRange ==
    Rendered =>
        LET v == Requested
            inside == 0 <= v /\ v <= max_variant_id(Variants)
            fallback ==
                /\ last.out.html.headline = Hero.headline
                /\ last.out.html.cta_text = Hero.cta_text
        IN  /\ ~inside =>
                 last.out.effective_variant_id = 0 /\ last.out.warned
            /\ inside =>
                 last.out.effective_variant_id = v /\ ~last.out.warned
            /\ (last.out.effective_variant_id = 0) <=> fallback

\* the file a template value stands for: its own file when it is one of the
\* known templates, the saas file otherwise
FileFor(t) ==
    CASE t = "saas" -> "saas.html.j2"
      [] t = "app" -> "app.html.j2"
      [] t = "agency" -> "agency.html.j2"
      [] OTHER -> "saas.html.j2"

C6_VariantOverride ==
    last.op = "render_landing" =>
        LET t == last.template_override
            o == last.variant_override
        IN  /\ o # None =>
                 /\ last.out =
                        render_landing(
                            [data EXCEPT !.render.variant_id = Val(o)],
                            templates_dir, t, None)
                 /\ Rendered => last.out.variant_id = Val(o)
            /\ (o = None /\ Rendered) =>
                 last.out.variant_id = data.render.variant_id

C6_Witness ==
    /\ Rendered
    /\ last.variant_override = Some(0)
    /\ data.render.variant_id = 1
    /\ Len(Variants.headlines) >= 1
    /\ last.out.html.headline = Hero.headline

\* C7: without content, render_landing raises RenderError MISSING_CONTENT
\* with step "render" for every template and variant argument, before any
\* template lookup or variant resolution.
C7_MissingContent ==
    (last.op = "render_landing" /\ data.content = None) =>
        /\ last.out.status = "raise"
        /\ last.out.error = "RenderError"
        /\ last.out.code = "E303"
        /\ last.out.step = "render"
        /\ last.out.calls = <<>>

C7_Witness ==
    /\ last.op = "render_landing"
    /\ data.content = None
    /\ last.template_override = Some("agency")
    /\ templates_dir = {"saas.html.j2"}
    /\ last.out.status = "raise"

\* C8: with content present and all template files in place, render_landing
\* returns for every template value and every integer variant id.
C8_NeverFails ==
    (/\ last.op = "render_landing"
     /\ data.content # None
     /\ templates_dir = {"saas.html.j2", "app.html.j2", "agency.html.j2"})
        => last.out.status = "return"

C8_Witness ==
    /\ Rendered
    /\ templates_dir = {"saas.html.j2", "app.html.j2", "agency.html.j2"}
    /\ last.template_override = Some("blog")
    /\ last.variant_override = Some(-1)

----------------------------------------------------------------------------
(* Properties of render_all_variants *)

BulkReturned == last.op = "render_all_variants" /\ last.out.status = "return"

\* C9: with k alternate headlines, render_all_variants returns exactly one
\* entry per pair (template, i), i in 0..k, under the key "{template}_v{i}":
\* 3 * (k + 1) entries, 9 for two alternates.
C9_BulkCount ==
    /\ (/\ last.op = "render_all_variants"
        /\ data.content # None
        /\ templates_dir = {"saas.html.j2", "app.html.j2", "agency.html.j2"})
           => last.out.status = "return"
    /\ BulkReturned =>
        LET k == Len(Variants.headlines)
            keys == DOMAIN last.out.results
        IN  /\ keys = {Key(t, i) : t \in {"saas", "app", "agency"}, i \in 0..k}
            /\ Cardinality(keys) = 3 * (k + 1)
            /\ k = 2 =>
                 keys = {"saas_v0", "saas_v1", "saas_v2",
                         "app_v0", "app_v1", "app_v2",
                         "agency_v0", "agency_v1", "agency_v2"}

C9_Witness ==
    /\ BulkReturned
    /\ Len(Variants.headlines) = 2
    /\ Cardinality(DOMAIN last.out.results) = 9

\* C10: every entry "{t}_v{i}" of render_all_variants(data) is the markup
\* that render_landing(data, template_override=t, variant_override=i)
\* returns for the same document.
C10_BulkIsIteration ==
    BulkReturned =>
        /\ \A key \in DOMAIN last.out.results :
             \E t \in TemplateType, i \in 0..MaxHeadlines : key = Key(t, i)
        /\ \A t \in TemplateType, i \in 0..MaxHeadlines :
             Key(t, i) \in DOMAIN last.out.results =>
                LET single == render_landing(data, templates_dir,
                                             Some(t), Some(i))
                IN  /\ single.status = "return"
                    /\ last.out.results[Key(t, i)] = single.html

C10_Witness ==
    /\ BulkReturned
    /\ data.render.template_type = "saas"
    /\ data.render.variant_id = 0
    /\ "agency_v1" \in DOMAIN last.out.results
    /\ last.out.results["agency_v1"].template = "agency.html.j2"
    /\ last.out.results["agency_v1"].headline = "Alt One"

(***************************************************************************)
(* Repeated resolution of one document                                     *)
(***************************************************************************)

\* mutant: the clamped variant id is written back into the document
DocumentAfter_WriteBack(d, out) ==
    IF "effective_variant_id" \in DOMAIN out
    THEN [d EXCEPT !.render.variant_id = out.effective_variant_id]
    ELSE d

\* the document once render_landing / render_all_variants has returned or
\* raised: neither assigns to data or to anything reachable from it
DocumentAfter(d, out) == d

DetHeadlines == {<<>>, <<"Alt One", "Alt Two">>, <<"Alt One", "Alt One">>}

\* alternates as a content stage may return them: none or two different
\* headlines with one call to action, the same headline twice with none
DetContent ==
    {c \in LandingContent :
        /\ c.variants.headlines \in DetHeadlines
        /\ c.variants.ctas = IF c.variants.headlines = <<"Alt One", "Alt One">>
                             THEN <<>>
                             ELSE <<"Try It Free">>}

\* documents before and after the brand stage, before and after the landing
\* stage
DetDocs ==
    [meta : {DefaultMeta},
     project : {FixtureProject},
     brand : {None, Some(FixtureBrand)},
     content : {None} \cup {Some(c) : c \in DetContent},
     assets : {DefaultAssets},
     render : [template_type : {"saas", "agency"}, variant_id : {0, 2}]]

DetTemplates == {None, Some("app")}
DetVariants == {None, Some(1)}

InitDeterminism ==
    /\ data \in DetDocs
    /\ templates_dir \in TemplateDirs
    /\ last = NoCall
    /\ current_year = 2026
    /\ prev = NoCall
    /\ pipe = Idle
    /\ globals = ModuleState
    /\ threads = NoThreads

SameArgs(a, b) ==
    /\ a.template_override = b.template_override
    /\ a.variant_override = b.variant_override

\* prev either keeps the call it remembers, noting whether another
\* resolution has happened since, or remembers this call
RenderLandingAgain ==
    \E t \in DetTemplates, v \in DetVariants :
        LET out == render_landing(data, templates_dir, t, v)
            call == [op |-> "render_landing",
                     template_override |-> t,
                     variant_override |-> v,
                     out |-> out]
            fresh == [op |-> "render_landing",
                      template_override |-> t,
                      variant_override |-> v,
                      out |-> out,
                      between |-> FALSE]
            kept == IF prev.op = "render_landing" /\ ~SameArgs(prev, call)
                    THEN [prev EXCEPT !.between = TRUE]
                    ELSE prev
        IN  /\ last' = call
            /\ prev' \in {fresh, kept}
            /\ data' = DocumentAfter(data, out)
            /\ UNCHANGED <<templates_dir, current_year, pipe,
                           globals, threads>>

RenderAllVariantsBetween ==
    LET out == render_all_variants(data, templates_dir)
    IN  /\ last' = [op |-> "render_all_variants", out |-> out]
        /\ prev' = IF prev.op = "render_landing"
                   THEN [prev EXCEPT !.between = TRUE]
                   ELSE prev
        /\ data' = DocumentAfter(data, out)
        /\ UNCHANGED <<templates_dir, current_year, pipe, globals, threads>>

\* the clock passes New Year
Tick ==
    /\ current_year + 1 \in Years
    /\ current_year' = current_year + 1
    /\ UNCHANGED <<data, templates_dir, last, prev, pipe, globals, threads>>

NextDeterminism ==
    \/ RenderLandingAgain
    \/ RenderAllVariantsBetween
    \/ Tick
    \/ SetVariantId
    \/ SetTemplateType

SpecDeterminism == InitDeterminism /\ [][NextDeterminism]_vars

\* C11: a step in which render_landing or render_all_variants runs leaves
\* the document as it was, whether the call returns or raises
C11_RenderDoesNotMutate ==
    [][last'.op \in {"render_landing", "render_all_variants"}
        => data' = data]_vars

\* a resolution returned after clamping the variant id of a document without
\* brand: the two places where the result differs from the document
C11_Witness ==
    /\ Rendered
    /\ last.out.warned
    /\ last.out.effective_variant_id # data.render.variant_id
    /\ data.brand = None
    /\ last.out.html.brand = DefaultBrandIdentity

\* a result with the year blanked
ModuloYear(out) ==
    IF out.status = "return"
    THEN [out EXCEPT !.html.current_year = 0]
    ELSE out

SameCall ==
    /\ prev.op = "render_landing"
    /\ last.op = "render_landing"
    /\ SameArgs(prev, last)

C26_VariantsDistinct ==
    (/\ last.op = "render_all_variants"
     /\ last.out.status = "return") =>
        LET k == Len(Val(data.content).variants.headlines)
        IN  \A t \in TemplateType : \A i, j \in 0..k :
                i # j => last.out.results[Key(t, i)] # last.out.results[Key(t, j)]

(***************************************************************************)
(* Section visibility                                                      *)
(***************************************************************************)

\* the sections whose data is a collection of the document
BackedSections == {"faq", "pricing", "screenshots", "feature_grid"}

\* the collection behind a section, given the content and assets a template
\* receives
Backing(content, assets, s) ==
    CASE s = "faq" -> content.faq_items
      [] s = "pricing" -> content.pricing_plans
      [] s = "screenshots" -> assets.screenshot_prompts
      [] s = "feature_grid" -> content.features

\* what a template shows for a section: nothing when the toggle is off, a
\* skeleton when it is on without data, the data otherwise
SectionView(html, s) ==
    IF ~html.sections[s] THEN "hidden"
    ELSE IF Backing(html.content, html.assets, s) = <<>> THEN "placeholder"
    ELSE "content"

SectionDocs ==
    {[d EXCEPT !.content = Some([Val(d.content) EXCEPT
                                    !.sections = sc,
                                    !.pricing_plans = pp]),
               !.assets.screenshot_prompts = sp] :
        d \in {x \in DetDocs : /\ x.content # None
                               /\ x.brand # None
                               /\ x.render.variant_id = 0
                               /\ x.render.template_type = "saas"},
        sc \in {DefaultSections,
                [DefaultSections EXCEPT !.pricing = TRUE,
                                        !.screenshots = TRUE]},
        pp \in {<<>>, <<PricingPlan>>},
        sp \in {<<>>, <<ScreenshotPrompt>>}}

InitSections ==
    /\ data \in SectionDocs
    /\ templates_dir \in TemplateDirs
    /\ last = NoCall
    /\ current_year = 2026
    /\ prev = NoCall
    /\ pipe = Idle
    /\ globals = ModuleState
    /\ threads = NoThreads

\* data.content.sections.<name> = b: attribute assignment on a nested model
SetSection ==
    \E s \in SectionNames, b \in BOOLEAN :
        /\ data.content # None
        /\ data' = [data EXCEPT !.content =
                        Some([Val(@) EXCEPT !.sections[s] = b])]
        /\ last' = NoCall
        /\ prev' = NoCall
        /\ UNCHANGED <<templates_dir, current_year, pipe, globals, threads>>

\* data.content.faq_items = [...]
SetFaqItems ==
    \E items \in {<<>>, <<FaqItem>>} :
        /\ data.content # None
        /\ data' = [data EXCEPT !.content =
                        Some([Val(@) EXCEPT !.faq_items = items])]
        /\ last' = NoCall
        /\ prev' = NoCall
        /\ UNCHANGED <<templates_dir, current_year, pipe, globals, threads>>

\* render_landing(data), as the callers without overrides use it
RenderLandingPlain ==
    /\ last' = [op |-> "render_landing",
                template_override |-> None,
                variant_override |-> None,
                out |-> render_landing(data, templates_dir, None, None)]
    /\ UNCHANGED <<data, templates_dir, current_year, prev, pipe,
                   globals, threads>>

NextSections ==
    \/ RenderLandingPlain
    \/ SetSection
    \/ SetFaqItems

SpecSections == InitSections /\ [][NextSections]_vars

ValidationError(model, message) ==
    [status |-> "raise", error |-> "ValidationError",
     model |-> model, message |-> message]

RECURSIVE SplitFrom(_, _, _, _)
\* str.split("."): the pieces between the dots, empty pieces included
SplitFrom(v, i, cur, acc) ==
    IF i > Len(v) THEN Append(acc, cur)
    ELSE IF v[i] = "." THEN SplitFrom(v, i + 1, <<>>, Append(acc, cur))
    ELSE SplitFrom(v, i + 1, Append(cur, v[i]), acc)

Split(v) == SplitFrom(v, 1, <<>>, <<>>)

\* mutant: only the major component is compared
validate_schema_version_MajorOnly(v) ==
    LET current_parts == Split(SCHEMA_VERSION)
        input_parts == Split(v)
    IN  IF Len(input_parts) < 2
        THEN ValidationError("GenerationMeta", "Invalid schema_version format")
        ELSE IF input_parts[1] # current_parts[1]
        THEN ValidationError("GenerationMeta", "Schema version mismatch")
        ELSE [status |-> "return", schema_version |-> v]

\* GenerationMeta.validate_schema_version
validate_schema_version(v) ==
    LET current_parts == Split(SCHEMA_VERSION)
        input_parts == Split(v)
    IN  IF Len(input_parts) < 2
        THEN ValidationError("GenerationMeta", "Invalid schema_version format")
        ELSE IF \/ input_parts[1] # current_parts[1]
                \/ input_parts[2] # current_parts[2]
        THEN ValidationError("GenerationMeta", "Schema version mismatch")
        ELSE [status |-> "return", schema_version |-> v]

VersionChars == {"1", "2", "."}
VersionStrings == SeqsUpTo(VersionChars, MaxVersionLen)

\* GenerationMeta(schema_version=v)
NewGenerationMeta ==
    \E v \in VersionStrings :
        /\ last' = [op |-> "GenerationMeta",
                    schema_version |-> v,
                    out |-> validate_schema_version(v)]
        /\ UNCHANGED <<data, templates_dir, current_year, prev, pipe,
                       globals, threads>>

\* A font or icon name as typed: a spelling, the case it is written in
\* (as spelled, all capitals, all small letters) and the blanks around it
Text(bases) ==
    [lead : 0..MaxPad, base : bases,
     case : {"as_is", "upper", "lower"}, trail : 0..MaxPad]

Plain(word) == [lead |-> 0, base |-> word, case |-> "as_is", trail |-> 0]

ALLOWED_FONTS ==
    {"Inter", "Roboto", "Open Sans", "Lato", "Montserrat", "Poppins",
     "Source Sans Pro", "Nunito", "Raleway", "Work Sans", "DM Sans",
     "Plus Jakarta Sans", "Space Grotesk", "Outfit", "Sora",
     "Playfair Display", "Merriweather", "Lora", "Crimson Text"}

ALLOWED_ICONS ==
    {"rocket", "shield", "zap", "star", "heart", "check", "lightning",
     "chart", "users", "clock", "lock", "globe", "mail", "phone",
     "settings", "layers", "target", "trending", "award", "briefcase"}

\* ICON_MAP: icon id to the code point of its glyph
ICON_MAP ==
    [rocket |-> "U+1F680", shield |-> "U+1F6E1", zap |-> "U+26A1",
     star |-> "U+2B50", heart |-> "U+2764", check |-> "U+2713",
     lightning |-> "U+26A1", chart |-> "U+1F4CA", users |-> "U+1F465",
     clock |-> "U+23F0", lock |-> "U+1F512", globe |-> "U+1F310",
     mail |-> "U+2709", phone |-> "U+1F4F1", settings |-> "U+2699",
     layers |-> "U+1F4DA", target |-> "U+1F3AF", trending |-> "U+1F4C8",
     award |-> "U+1F3C6", briefcase |-> "U+1F4BC"]

\* spellings outside the allow-lists
OtherFonts == {"Comic Sans", "Arial"}
OtherIcons == {"invalid_icon", "fire"}

\* the spellings that consist of small letters only
SmallLetterWords == ALLOWED_ICONS \cup OtherIcons

\* str.lower()
Lower(t) ==
    [t EXCEPT !.case = IF t.base \in SmallLetterWords
                       THEN "as_is" ELSE "lower"]

\* str.strip()
Strip(t) == [t EXCEPT !.lead = 0, !.trail = 0]

\* v in <frozenset of str>
InSet(t, allowed) == t.base \in allowed /\ t = Plain(t.base)

FontMessage == "not in ALLOWED_FONTS"
IconMessage == "not in ALLOWED_ICONS"

\* mutant: an unknown font is replaced by the default font
validate_font_Fallback(v) ==
    IF ~InSet(v, ALLOWED_FONTS)
    THEN [status |-> "return", value |-> Plain("Inter")]
    ELSE [status |-> "return", value |-> v]

\* Typography.validate_font
validate_font(v) ==
    IF ~InSet(v, ALLOWED_FONTS)
    THEN ValidationError("Typography", FontMessage)
    ELSE [status |-> "return", value |-> v]

\* mutant: the icon is checked in its normal form but kept as typed
validate_icon_AsTyped(v) ==
    LET icon == Strip(Lower(v))
    IN  IF ~InSet(icon, ALLOWED_ICONS)
        THEN ValidationError("Feature", IconMessage)
        ELSE [status |-> "return", value |-> v]

\* Feature.validate_icon, on the value that str_strip_whitespace has
\* already stripped
validate_icon(v) ==
    LET icon == Strip(Lower(v))
    IN  IF ~InSet(icon, ALLOWED_ICONS)
        THEN ValidationError("Feature", IconMessage)
        ELSE [status |-> "return", value |-> icon]

\* Typography(heading=..., body=...): both fields are validated, any error
\* fails the construction
NewTypographyOut(heading, body) ==
    LET h == validate_font(heading)
        b == validate_font(body)
    IN  IF h.status = "raise" THEN h
        ELSE IF b.status = "raise" THEN b
        ELSE [status |-> "return",
              value |-> [heading |-> h.value, body |-> b.value]]

\* Feature(title=..., description=..., icon=...)
NewFeatureOut(icon) ==
    LET r == validate_icon(Strip(icon))
    IN  IF r.status = "raise" THEN r
        ELSE [status |-> "return",
              value |-> [title |-> "Test Feature", icon |-> r.value]]

\* every spelling as it stands, two of them in every case and padding
FontInputs ==
    {Plain(f) : f \in ALLOWED_FONTS \cup OtherFonts}
        \cup Text({"Inter", "Comic Sans"})
BodyInputs ==
    {Plain("Inter"), Plain("Roboto"), Plain("Comic Sans"),
     [Plain("Inter") EXCEPT !.case = "upper"]}
IconInputs ==
    {Plain(i) : i \in ALLOWED_ICONS \cup OtherIcons}
        \cup {t \in Text({"rocket", "fire"}) : t.case # "lower"}

NewTypography ==
    \E heading \in FontInputs, body \in BodyInputs :
        /\ last' = [op |-> "Typography",
                    heading |-> heading,
                    body |-> body,
                    out |-> NewTypographyOut(heading, body)]
        /\ UNCHANGED <<data, templates_dir, current_year, prev, pipe,
                       globals, threads>>

NewFeature ==
    \E icon \in IconInputs :
        /\ last' = [op |-> "Feature",
                    icon |-> icon,
                    out |-> NewFeatureOut(icon)]
        /\ UNCHANGED <<data, templates_dir, current_year, prev, pipe,
                       globals, threads>>

\* JSON null or a JSON value
JsonNull == [null |-> TRUE]
JsonOpt(o) == IF o = None THEN JsonNull ELSE [null |-> FALSE, value |-> Val(o)]
FromJsonOpt(j) == IF j.null THEN None ELSE Some(j.value)

\* CanonicalData.to_json: model_dump_json writes the values held in memory,
\* whatever they are, absent ones as null
to_json(d) ==
    [meta |-> d.meta,
     project |-> d.project,
     brand |-> JsonOpt(d.brand),
     content |-> JsonOpt(d.content),
     assets |-> [hero_image_prompt |-> JsonOpt(d.assets.hero_image_prompt),
                 screenshot_prompts |-> d.assets.screenshot_prompts],
     render |-> d.render]

\* the field constraints of the schema, entity by entity
MetaValid(meta) ==
    validate_schema_version(meta.schema_version).status = "return"

ProjectValid(project) == project.tone \in ToneType

BrandValid(brand) ==
    /\ validate_font(Plain(brand.fonts.heading)).status = "return"
    /\ validate_font(Plain(brand.fonts.body)).status = "return"

ContentValid(content) ==
    /\ Len(content.features) \in 3..6
    /\ \A i \in DOMAIN content.features :
            NewFeatureOut(Plain(content.features[i].icon)).status = "return"
    /\ Len(content.variants.headlines) <= MaxHeadlines
    /\ Len(content.variants.ctas) <= MaxCtas
    /\ Len(content.faq_items) <= 6
    /\ Len(content.pricing_plans) <= 3

AssetsValid(assets) == Len(assets.screenshot_prompts) <= 4

\* mutant: the upper bound of variant_id is the number of headlines on file
RenderValid_ByCount(render, content) ==
    /\ render.template_type \in TemplateType
    /\ render.variant_id >= 0
    /\ render.variant_id <=
            IF content = None THEN 0
            ELSE max_variant_id(Val(content).variants)

\* RenderConfig: template_type is a Literal, variant_id has ge=0 and le=10;
\* validate_variant_id_bounds sees the content and lets every id pass
RenderValid(render, content) ==
    /\ render.template_type \in TemplateType
    /\ render.variant_id >= 0
    /\ render.variant_id <= VariantIdLe

\* the document satisfies the constraints of CanonicalData and of every
\* entity nested in it
SchemaValid(d) ==
    /\ MetaValid(d.meta)
    /\ ProjectValid(d.project)
    /\ d.brand # None => BrandValid(Val(d.brand))
    /\ d.content # None => ContentValid(Val(d.content))
    /\ AssetsValid(d.assets)
    /\ RenderValid(d.render, d.content)

\* CanonicalData.from_json: model_validate_json builds every entity from
\* the parsed values and raises when a constraint fails
from_json(j) ==
    LET d == [meta |-> j.meta,
              project |-> j.project,
              brand |-> FromJsonOpt(j.brand),
              content |-> FromJsonOpt(j.content),
              assets |-> [hero_image_prompt |->
                              FromJsonOpt(j.assets.hero_image_prompt),
                          screenshot_prompts |-> j.assets.screenshot_prompts],
              render |-> j.render]
    IN  IF SchemaValid(d)
        THEN [status |-> "return", doc |-> d]
        ELSE ValidationError("CanonicalData", "validation error")

\* CanonicalData.get_effective_variant_id
get_effective_variant_id(d) ==
    IF d.content = None THEN 0
    ELSE IF d.render.variant_id > max_variant_id(Val(d.content).variants)
    THEN 0
    ELSE d.render.variant_id

\* files of the output directory, none written yet
NoFiles == [canonical_json |-> None, index_html |-> None]

RawVariantIds == VariantArgs \cup {VariantIdLe, VariantIdLe + 1}

OlderVersion == <<"1", ".", "1", ".", "1">>

\* canonical.json files as found on disk: written by any run, edited by hand
JsonFiles ==
    {[to_json(d) EXCEPT !.render = [template_type |-> t, variant_id |-> v],
                        !.meta.schema_version = sv] :
        d \in {x \in DetDocs : x.brand # None},
        t \in {"saas", "blog"},
        v \in RawVariantIds,
        sv \in {SCHEMA_VERSION, OlderVersion}}

\* mutant: index.html is always the default variant
IndexEntry_Default(d, results) ==
    [status |-> "return",
     html |-> results[Key(d.render.template_type, 0)]]

\* results.get(default_key, results[f"{template_type}_v0"]): the fallback
\* entry is looked up first, a KeyError when it is missing
IndexEntry(d, results) ==
    LET default_key == Key(d.render.template_type, d.render.variant_id)
        v0_key == Key(d.render.template_type, 0)
    IN  IF v0_key \notin DOMAIN results
        THEN [status |-> "raise", error |-> "KeyError"]
        ELSE [status |-> "return",
              html |-> IF default_key \in DOMAIN results
                       THEN results[default_key]
                       ELSE results[v0_key]]

\* main.run_render without overrides: load the file, give up when loading
\* fails or the document has no content, write canonical.json, then render
\* one page or, with --all-variants, every combination, and write
\* index.html; an error of the bulk rendering ends main with exit code 1
run_render(j, dir, all_variants) ==
    LET loaded == from_json(j)
        d == loaded.doc
        canonical_json == Some(to_json(d))
        gave_up == [exit |-> 1, loaded |-> loaded, rendered |-> None,
                    bulk |-> None, files |-> NoFiles]
    IN  IF loaded.status = "raise" THEN gave_up
        ELSE IF d.content = None THEN gave_up
        ELSE IF all_variants
        THEN LET out == render_all_variants(d, dir)
                 index == IF out.status = "return"
                          THEN IndexEntry(d, out.results)
                          ELSE out
             IN  [exit |-> IF index.status = "return" THEN 0 ELSE 1,
                  loaded |-> loaded,
                  rendered |-> None,
                  bulk |-> Some(out),
                  files |-> [canonical_json |-> canonical_json,
                             index_html |-> IF index.status = "return"
                                            THEN Some(index.html)
                                            ELSE None]]
        ELSE LET out == render_landing(d, dir, None, None)
             IN  [exit |-> IF out.status = "return" THEN 0 ELSE 1,
                  loaded |-> loaded,
                  rendered |-> Some(out),
                  bulk |-> None,
                  files |-> [canonical_json |-> canonical_json,
                             index_html |-> IF out.status = "return"
                                            THEN Some(out.html)
                                            ELSE None]]

RunRender ==
    \E j \in JsonFiles, all_variants \in BOOLEAN :
        /\ last' = [op |-> "run_render",
                    json |-> j,
                    all_variants |-> all_variants,
                    out |-> run_render(j, templates_dir, all_variants)]
        /\ UNCHANGED <<data, templates_dir, current_year, prev, pipe,
                       globals, threads>>

InitSchema ==
    /\ data \in {d \in DetDocs : /\ d.brand # None
                                  /\ d.content = None
                                  /\ d.render.variant_id = 0
                                  /\ d.render.template_type = "saas"}
    /\ templates_dir \in TemplateDirs
    /\ last = NoCall
    /\ current_year = 2026
    /\ prev = NoCall
    /\ pipe = Idle
    /\ globals = ModuleState
    /\ threads = NoThreads

NextSchema ==
    \/ NewGenerationMeta
    \/ NewTypography
    \/ NewFeature
    \/ RunRender

SpecSchema == InitSchema /\ [][NextSchema]_vars

IsPrefix(p, v) == Len(v) >= Len(p) /\ SubSeq(v, 1, Len(p)) = p

\* the versions that share major and minor with 1.2.1: "1.2" itself and
\* "1.2." followed by anything
SameMajorMinor(v) ==
    \/ v = <<"1", ".", "2">>
    \/ IsPrefix(<<"1", ".", "2", ".">>, v)

\* C14: GenerationMeta(schema_version=v) fails when v has fewer than two
\* dot-separated parts or when its first or second part differs from that of
\* SCHEMA_VERSION, and succeeds, keeping v, when only what follows the second
\* part differs
C14_SchemaVersionGate ==
    last.op = "GenerationMeta" =>
        LET v == last.schema_version
            parts == Split(v)
            current == Split(SCHEMA_VERSION)
        IN  /\ Len(parts) < 2 => last.out.status = "raise"
            /\ Len(parts) >= 2 /\ (parts[1] # current[1] \/ parts[2] # current[2])
                    => last.out.status = "raise"
            /\ SameMajorMinor(v) =>
                    /\ last.out.status = "return"
                    /\ last.out.schema_version = v
            /\ last.out.status = "return" => SameMajorMinor(v)

\* a version accepted although its patch component is not the running one
C14_Witness ==
    /\ last.op = "GenerationMeta"
    /\ last.schema_version = <<"1", ".", "2", ".", "2">>
    /\ last.out.status = "return"

\* C17: Typography with a heading or body outside ALLOWED_FONTS and Feature
\* with an icon that is outside ALLOWED_ICONS once lowercased and trimmed
\* fail with an error that names the allow-list; allow-listed values are
\* accepted and stored as given, the icon in small letters without blanks
C17_ClosedWorld ==
    /\ last.op = "Typography" =>
        LET ok == /\ last.heading.base \in ALLOWED_FONTS
                  /\ last.heading = Plain(last.heading.base)
                  /\ last.body.base \in ALLOWED_FONTS
                  /\ last.body = Plain(last.body.base)
        IN  /\ ok => /\ last.out.status = "return"
                     /\ last.out.value.heading = last.heading
                     /\ last.out.value.body = last.body
            /\ ~ok => /\ last.out.status = "raise"
                      /\ last.out.error = "ValidationError"
                      /\ last.out.message = FontMessage
    /\ last.op = "Feature" =>
        LET ok == last.icon.base \in ALLOWED_ICONS
        IN  /\ ok => /\ last.out.status = "return"
                     /\ last.out.value.icon = Plain(last.icon.base)
            /\ ~ok => /\ last.out.status = "raise"
                      /\ last.out.error = "ValidationError"
                      /\ last.out.message = IconMessage

\* an icon typed in capitals with blanks around it, stored normalized
C17_Witness ==
    /\ last.op = "Feature"
    /\ last.icon.base = "rocket"
    /\ last.icon.case = "upper"
    /\ last.icon.lead > 0
    /\ last.out.status = "return"
    /\ last.out.value.icon = Plain("rocket")

C24_SavedOnlyIfRendered ==
    (last.op = "run_render" /\ last.out.files.canonical_json # None) =>
        /\ last.out.exit = 0
        /\ last.all_variants => Val(last.out.bulk).status = "return"
        /\ ~last.all_variants => Val(last.out.rendered).status = "return"

Covered(d) ==
    /\ d.project.tone \in DOMAIN TONE_STYLES
    /\ d.render.template_type \in DOMAIN TEMPLATE_FILES
    /\ d.content # None =>
            \A i \in DOMAIN Val(d.content).features :
                Val(d.content).features[i].icon \in DOMAIN ICON_MAP

\* C30: every icon a Feature is constructed with is a key of ICON_MAP, every
\* tone of a document that loads a key of TONE_STYLES and its template type
\* a key of TEMPLATE_FILES, so that a page rendered from it carries the
\* style and the template file found under the document's own keys
C30_FallbacksUnreachable ==
    /\ ALLOWED_ICONS \subseteq DOMAIN ICON_MAP
    /\ ToneType \subseteq DOMAIN TONE_STYLES
    /\ TemplateType \subseteq DOMAIN TEMPLATE_FILES
    /\ (last.op = "Feature" /\ last.out.status = "return") =>
            /\ last.out.value.icon = Plain(last.out.value.icon.base)
            /\ last.out.value.icon.base \in DOMAIN ICON_MAP
    /\ (last.op = "run_render" /\ last.out.loaded.status = "return") =>
            /\ Covered(last.out.loaded.doc)
            /\ (last.out.rendered # None
                    /\ Val(last.out.rendered).status = "return") =>
                LET d == last.out.loaded.doc
                    html == Val(last.out.rendered).html
                IN  /\ html.tone_style = TONE_STYLES[d.project.tone]
                    /\ html.template = TEMPLATE_FILES[d.render.template_type]

\* an icon typed in capitals between blanks is accepted as a key of ICON_MAP
C30_Witness ==
    /\ last.op = "Feature"
    /\ last.icon = [lead |-> 1, base |-> "rocket", case |-> "upper", trail |-> 1]
    /\ last.out.status = "return"
    /\ last.out.value.icon.base \in DOMAIN ICON_MAP

(***************************************************************************)
(* Assignment to a document held in memory                                 *)
(***************************************************************************)

InitAssign ==
    /\ data \in DetDocs
    /\ templates_dir \in TemplateDirs
    /\ last = NoCall
    /\ current_year = 2026
    /\ prev = NoCall
    /\ pipe = Idle
    /\ globals = ModuleState
    /\ threads = NoThreads

\* data.render = {...}: CanonicalData has validate_assignment, the value of
\* one of its own fields is validated before it is stored
AssignRender ==
    \E t \in {"app", "blog"}, v \in VariantArgs :
        LET render == [template_type |-> t, variant_id |-> v]
            ok == RenderValid(render, data.content)
        IN  /\ data' = IF ok THEN [data EXCEPT !.render = render] ELSE data
            /\ last' = [op |-> "assign_render",
                        out |-> IF ok
                                THEN [status |-> "return"]
                                ELSE ValidationError("CanonicalData",
                                                     "validation error")]
            /\ prev' = NoCall
            /\ UNCHANGED <<templates_dir, current_year, pipe,
                           globals, threads>>

\* CanonicalData.from_json(data.to_json())
RoundTrip ==
    /\ last' = [op |-> "roundtrip", out |-> from_json(to_json(data))]
    /\ UNCHANGED <<data, templates_dir, current_year, prev, pipe,
                   globals, threads>>

\* SetVariantId and SetTemplateType assign to fields of data.render, a nested
\* model without validate_assignment
NextAssign ==
    \/ SetVariantId
    \/ SetTemplateType
    \/ AssignRender
    \/ RoundTrip

SpecAssign == InitAssign /\ [][NextAssign]_vars

\* C15: serializing the document held in memory and loading the result
\* succeeds and gives a document equal to it
C15_RoundTrip ==
    last.op = "roundtrip" =>
        /\ last.out.status = "return"
        /\ last.out.doc = data

\* C16: whatever is assigned, to the document or to an entity nested in it,
\* the document in memory satisfies the constraints of its schema
C16_AssignmentsValidated == SchemaValid(data)

(***************************************************************************)
(* LandingPipeline.run (orchestrator.py), one step per stage               *)
(***************************************************************************)

\* the empty string returned in place of markup
NoMarkup == <<>>

\* mutant: the log is replaced by the step
add_step_Replace(d, step_name) ==
    [d EXCEPT !.meta.pipeline_steps = <<step_name>>]

\* CanonicalData.add_step
add_step(d, step_name) ==
    [d EXCEPT !.meta.pipeline_steps = Append(@, step_name)]

PipelineResult(canonical_data, html, success, errors) ==
    [canonical_data |-> canonical_data, html |-> html,
     success |-> success, errors |-> errors]

\* PipelineResult.save: canonical.json when there is a document, index.html
\* when the markup is not empty
save(result) ==
    [canonical_json |-> IF result.canonical_data # None
                        THEN Some(to_json(Val(result.canonical_data)))
                        ELSE None,
     index_html |-> result.html]

\* main.run_example with one example: 0 when result.success, else 1
ExampleExit(result) == IF result.success THEN 0 ELSE 1

\* an entry of the error list: f"<agent> failed...: {e}"
Failure(prefix, e) == [prefix |-> prefix, cause |-> e]

LLMError == "LLM error"

\* mutant: a failed onboarding falls back to a stock project and goes on
OnboardingFailed_Continue(p, e) ==
    [p EXCEPT
        !.pc = "stage2",
        !.invoked = Append(@, [agent |-> "OnboardingAgent", ok |-> FALSE]),
        !.errors = Append(@, Failure("OnboardingAgent failed", e)),
        !.canonical = Some(add_step(
            [meta |-> DefaultMeta, project |-> FixtureProject,
             brand |-> None, content |-> None, assets |-> DefaultAssets,
             render |-> [template_type |-> p.user_input.template_type,
                         variant_id |-> 0]],
            "onboarding"))]

\* stage 1, except branch: the run returns at once
OnboardingFailed(p, e) ==
    LET errors == Append(p.errors, Failure("OnboardingAgent failed", e))
    IN  [p EXCEPT
            !.pc = "done",
            !.invoked = Append(@, [agent |-> "OnboardingAgent", ok |-> FALSE]),
            !.errors = errors,
            !.result = Some(PipelineResult(None, NoMarkup, FALSE, errors)),
            !.exit = Some(1)]

\* stage 1 returned: RenderConfig(template_type=user_input.template_type),
\* CanonicalData(project=..., render=...), add_step("onboarding")
OnboardingDone(p, project_info) ==
    [p EXCEPT
        !.pc = "stage2",
        !.invoked = Append(@, [agent |-> "OnboardingAgent", ok |-> TRUE]),
        !.canonical = Some(add_step(
            [meta |-> DefaultMeta, project |-> project_info,
             brand |-> None, content |-> None, assets |-> DefaultAssets,
             render |-> [template_type |-> p.user_input.template_type,
                         variant_id |-> 0]],
            "onboarding"))]

\* stage 2 returned
BrandDone(p, brand_identity) ==
    [p EXCEPT
        !.pc = "stage3",
        !.invoked = Append(@, [agent |-> "BrandAgent", ok |-> TRUE]),
        !.canonical = Some(add_step(
            [Val(@) EXCEPT !.brand = Some(brand_identity)], "brand"))]

\* mutant: the fallback is logged like a generated brand
BrandFailed_LogsBrand(p, e) ==
    [p EXCEPT
        !.pc = "stage3",
        !.invoked = Append(@, [agent |-> "BrandAgent", ok |-> FALSE]),
        !.errors = Append(@, Failure("BrandAgent failed (using defaults)", e)),
        !.canonical = Some(add_step(
            [Val(@) EXCEPT !.brand = Some(DefaultBrandIdentity)], "brand"))]

\* stage 2, except branch
BrandFailed(p, e) ==
    [p EXCEPT
        !.pc = "stage3",
        !.invoked = Append(@, [agent |-> "BrandAgent", ok |-> FALSE]),
        !.errors = Append(@, Failure("BrandAgent failed (using defaults)", e)),
        !.canonical = Some(add_step(
            [Val(@) EXCEPT !.brand = Some(DefaultBrandIdentity)],
            "brand:fallback"))]

\* LandingAgent._get_default_sections
LandingSections(template_type) ==
    CASE template_type = "saas" ->
            [DefaultSections EXCEPT !.faq = TRUE, !.stats = FALSE,
                                    !.logos = TRUE]
      [] template_type = "app" -> [DefaultSections EXCEPT !.screenshots = TRUE]
      [] template_type = "agency" -> [DefaultSections EXCEPT !.stats = FALSE]
      [] OTHER -> DefaultSections

\* LandingAgent._generate_asset_prompts
GeneratedAssets(d) ==
    [hero_image_prompt |-> Some("dashboard interface"),
     screenshot_prompts |-> <<ScreenshotPrompt, "feature highlight">>]

\* LandingAgent.run: the content comes from the LLM or the call raises; the
\* assets and the content are written into the document before it is
\* rendered, and stay there when rendering raises
LandingAgentRun(d, dir, generated) ==
    IF generated = None
    THEN [status |-> "raise", data |-> d, cause |-> LLMError]
    ELSE LET content == [Val(generated) EXCEPT
                            !.sections = LandingSections(d.render.template_type)]
             d1 == [d EXCEPT !.assets = GeneratedAssets(d),
                             !.content = Some(content)]
             out == render_landing(d1, dir, None, None)
         IN  IF out.status = "raise"
             THEN [status |-> "raise", data |-> d1, cause |-> out.code]
             ELSE [status |-> "return", data |-> d1,
                   content |-> content, html |-> out.html]

\* stage 3, the construction of the result and, when an output directory
\* was given and stage 3 returned, result.save(output_dir)
LandingStage(p, dir, generated) ==
    LET r == LandingAgentRun(Val(p.canonical), dir, generated)
        invoked == Append(p.invoked,
                          [agent |-> "LandingAgent", ok |-> r.status = "return"])
    IN  IF r.status = "raise"
        THEN LET errors == Append(p.errors, Failure("LandingAgent failed", r.cause))
             IN  [p EXCEPT
                    !.pc = "done",
                    !.invoked = invoked,
                    !.errors = errors,
                    !.canonical = Some(r.data),
                    !.result = Some(PipelineResult(Some(r.data), NoMarkup,
                                                   FALSE, errors)),
                    !.exit = Some(1)]
        ELSE LET canonical == add_step(
                    [r.data EXCEPT !.content = Some(r.content)], "landing")
                 result == PipelineResult(Some(canonical), Some(r.html),
                                          Len(p.errors) = 0, p.errors)
             IN  [p EXCEPT
                    !.pc = "done",
                    !.invoked = invoked,
                    !.canonical = Some(canonical),
                    !.result = Some(result),
                    !.disk = IF p.output_dir THEN save(result) ELSE @,
                    !.exit = Some(ExampleExit(result))]

UserInputs ==
    [product_name : {"TestProduct"},
     tone : {"professional", "bold"},
     template_type : TemplateType]

InitPipeline ==
    /\ data \in {d \in DetDocs : /\ d.brand = None
                                  /\ d.content = None
                                  /\ d.render.variant_id = 0
                                  /\ d.render.template_type = "saas"}
    /\ templates_dir \in TemplateDirs
    /\ last = NoCall
    /\ current_year = 2026
    /\ prev = NoCall
    /\ pipe \in [pc : {"stage1"}, user_input : UserInputs,
                 canonical : {None}, errors : {<<>>}, invoked : {<<>>},
                 result : {None}, output_dir : BOOLEAN,
                 disk : {NoFiles}, exit : {None}]
    /\ globals = ModuleState
    /\ threads = NoThreads

\* OnboardingAgent.run returns a ProjectInfo or raises
Stage1 ==
    /\ pipe.pc = "stage1"
    /\ \/ pipe' = OnboardingFailed(pipe, LLMError)
       \/ \E tone \in {pipe.user_input.tone, "friendly"} :
            pipe' = OnboardingDone(pipe,
                        [product_name |-> pipe.user_input.product_name,
                         tone |-> tone])
    /\ UNCHANGED <<data, templates_dir, last, current_year, prev,
                   globals, threads>>

\* BrandAgent.run returns a BrandIdentity or raises
Stage2 ==
    /\ pipe.pc = "stage2"
    /\ \/ pipe' = BrandFailed(pipe, LLMError)
       \/ pipe' = BrandDone(pipe, FixtureBrand)
    /\ UNCHANGED <<data, templates_dir, last, current_year, prev,
                   globals, threads>>

\* LandingAgent.run
Stage3 ==
    /\ pipe.pc = "stage3"
    /\ \E generated \in {None} \cup {Some(c) : c \in DetContent} :
            pipe' = LandingStage(pipe, templates_dir, generated)
    /\ UNCHANGED <<data, templates_dir, last, current_year, prev,
                   globals, threads>>

NextPipeline ==
    \/ Stage1
    \/ Stage2
    \/ Stage3

SpecPipeline == InitPipeline /\ [][NextPipeline]_vars

StageFailed(n) == Len(pipe.invoked) >= n /\ ~pipe.invoked[n].ok

Steps == Val(pipe.canonical).meta.pipeline_steps

Logged(step) == \E i \in DOMAIN Steps : Steps[i] = step

\* C19: once the onboarding stage has failed the run is over: no other
\* agent has been or will be invoked, no document exists, and the result
\* carries success false, no markup, no document and one error entry, which
\* names the onboarding agent
C19_OnboardingAborts ==
    StageFailed(1) =>
        /\ pipe.pc = "done"
        /\ Len(pipe.invoked) = 1
        /\ pipe.canonical = None
        /\ pipe.result # None
        /\ Val(pipe.result).success = FALSE
        /\ Val(pipe.result).html = NoMarkup
        /\ Val(pipe.result).canonical_data = None
        /\ Val(pipe.result).errors =
                <<Failure("OnboardingAgent failed", LLMError)>>
        /\ ~ENABLED Stage2
        /\ ~ENABLED Stage3

\* the run returned after the failure of its first stage
C19_Witness ==
    /\ StageFailed(1)
    /\ pipe.invoked[1].agent = "OnboardingAgent"
    /\ pipe.pc = "done"
    /\ pipe.result # None

\* C20: once the brand stage has failed, the document's brand is
\* DefaultBrand.IDENTITY, the stage log holds "brand:fallback" and not
\* "brand", the failure is in the error list, also in that of the result,
\* and a run that is over has invoked the landing stage; whenever the
\* landing stage is about to run or has run, the document has a brand
C20_BrandFallback ==
    /\ StageFailed(2) =>
        /\ pipe.invoked[2].agent = "BrandAgent"
        /\ Val(pipe.canonical).brand = Some(DefaultBrandIdentity)
        /\ Logged("brand:fallback")
        /\ ~Logged("brand")
        /\ pipe.errors[1] = Failure("BrandAgent failed (using defaults)",
                                    LLMError)
        /\ pipe.pc \in {"stage3", "done"}
        /\ pipe.pc = "stage3" => ENABLED Stage3
        /\ pipe.pc = "done" =>
            /\ Len(pipe.invoked) = 3
            /\ pipe.invoked[3].agent = "LandingAgent"
            /\ Val(pipe.result).errors[1] = pipe.errors[1]
            /\ Val(pipe.result).success = FALSE
    /\ (pipe.pc = "stage3" \/ Len(pipe.invoked) = 3) =>
        /\ pipe.canonical # None
        /\ Val(pipe.canonical).brand # None

\* a run whose brand stage failed and whose landing stage then produced
\* markup with the default brand
C20_Witness ==
    /\ StageFailed(2)
    /\ pipe.pc = "done"
    /\ pipe.invoked[3].ok
    /\ Val(pipe.result).html # NoMarkup
    /\ Val(Val(pipe.result).html).brand = DefaultBrandIdentity
    /\ Logged("brand:fallback")
    /\ Logged("landing")

Result == Val(pipe.result)

\* C21: a finished run in which only the brand stage failed has markup and
\* is reported as a success: success flag true, exit code 0
C21_BrandFailureIsSuccess ==
    (/\ pipe.pc = "done"
     /\ StageFailed(2)
     /\ pipe.invoked[1].ok
     /\ pipe.invoked[3].ok) =>
        /\ Result.html # NoMarkup
        /\ Result.success
        /\ pipe.exit = Some(0)

\* C22: once the landing stage has failed the result has success false, no
\* markup, and a document as it was before the stage began: project and
\* brand set, no content, no assets, two steps logged
C22_LandingFailureKeepsPartial ==
    StageFailed(3) =>
        /\ pipe.pc = "done"
        /\ Result.success = FALSE
        /\ Result.html = NoMarkup
        /\ Result.canonical_data # None
        /\ LET d == Val(Result.canonical_data)
           IN  /\ d.brand # None
               /\ d.content = None
               /\ d.assets = DefaultAssets
               /\ d.meta.pipeline_steps \in
                    {<<"onboarding", "brand">>,
                     <<"onboarding", "brand:fallback">>}

Doc == Val(pipe.canonical)

\* C23: from one step of a run to the next the document stays, project and
\* render keep their values, brand, content and assets keep theirs once
\* set, and the stage log is extended at its end
C23_StagesOnlyAppend ==
    [][pipe.canonical # None =>
        /\ pipe'.canonical # None
        /\ Doc'.project = Doc.project
        /\ Doc'.render = Doc.render
        /\ Doc.brand # None => Doc'.brand = Doc.brand
        /\ Doc.content # None => Doc'.content = Doc.content
        /\ Doc.assets # DefaultAssets => Doc'.assets = Doc.assets
        /\ IsPrefix(Doc.meta.pipeline_steps, Doc'.meta.pipeline_steps)]_vars

\* a run whose three stages each wrote their part
C23_Witness ==
    /\ pipe.pc = "done"
    /\ Len(pipe.invoked) = 3
    /\ \A i \in 1..3 : pipe.invoked[i].ok
    /\ Doc.brand = Some(FixtureBrand)
    /\ Doc.content # None
    /\ Doc.assets # DefaultAssets
    /\ Doc.meta.pipeline_steps = <<"onboarding", "brand", "landing">>

LogAgrees(d) ==
    LET steps == d.meta.pipeline_steps
        logged(x) == \E i \in DOMAIN steps : steps[i] = x
    IN  /\ \/ IsPrefix(steps, <<"onboarding", "brand", "landing">>)
           \/ IsPrefix(steps, <<"onboarding", "brand:fallback", "landing">>)
        /\ d.brand # None <=> (logged("brand") \/ logged("brand:fallback"))
        /\ d.content # None <=> logged("landing")

\* C28: the stage log of the document of a run, and of the document of the
\* result returned, is a prefix of onboarding, brand or brand:fallback,
\* landing; the brand is set exactly when a brand step is logged and the
\* content exactly when landing is logged
C28_LogAgreesWithFields ==
    /\ pipe.canonical # None => LogAgrees(Doc)
    /\ (pipe.result # None /\ Result.canonical_data # None) =>
            LogAgrees(Val(Result.canonical_data))

(***************************************************************************)
(* The shared renderer, first used by several threads                      *)
(***************************************************************************)

Threads == 1..MaxThreads

\* a thread outside get_renderer: calls made so far, renderers constructed
\* so far, what its last call returned and, as history, the shared renderer
\* at the time of the call when no first use was under way then
Outside ==
    [pc |-> "outside", calls |-> 0, built |-> 0, local |-> None,
     result |-> None, settled |-> None]

\* mutant: every call constructs a renderer
NeedsInit_Always(g) == TRUE

\* if _renderer is None
NeedsInit(g) == g._renderer = None

Settled ==
    /\ globals._renderer # None
    /\ \A u \in Threads : threads[u].pc = "outside"

InitRenderer ==
    /\ data \in {d \in DetDocs : /\ d.content = None
                                  /\ d.brand = None
                                  /\ d.render.variant_id = 0
                                  /\ d.render.template_type = "saas"}
    /\ templates_dir = AllTemplateFiles
    /\ last = NoCall
    /\ current_year = 2026
    /\ prev = NoCall
    /\ pipe = Idle
    /\ globals = ModuleState
    /\ threads = [t \in Threads |-> Outside]

\* get_renderer() is entered
Call(t) ==
    /\ threads[t].pc = "outside"
    /\ threads[t].calls < MaxCalls
    /\ threads' = [threads EXCEPT ![t].pc = "test",
                                  ![t].calls = @ + 1,
                                  ![t].result = None,
                                  ![t].settled = IF Settled
                                                 THEN globals._renderer
                                                 ELSE None]
    /\ UNCHANGED <<data, templates_dir, last, current_year, prev, pipe,
                   globals>>

\* the global is read and compared with None
Test(t) ==
    /\ threads[t].pc = "test"
    /\ threads' = [threads EXCEPT ![t].pc = IF NeedsInit(globals)
                                            THEN "construct"
                                            ELSE "return"]
    /\ UNCHANGED <<data, templates_dir, last, current_year, prev, pipe,
                   globals>>

\* TemplateRenderer(): a new object, named after the call that made it
Construct(t) ==
    /\ threads[t].pc = "construct"
    /\ threads' = [threads EXCEPT
                        ![t].pc = "assign",
                        ![t].built = @ + 1,
                        ![t].local = Some([by |-> t,
                                           call |-> threads[t].calls])]
    /\ UNCHANGED <<data, templates_dir, last, current_year, prev, pipe,
                   globals>>

\* _renderer = <the new object>
Assign(t) ==
    /\ threads[t].pc = "assign"
    /\ globals' = [globals EXCEPT !._renderer = threads[t].local]
    /\ threads' = [threads EXCEPT ![t].pc = "return"]
    /\ UNCHANGED <<data, templates_dir, last, current_year, prev, pipe>>

\* return _renderer: the global is read again
Return(t) ==
    /\ threads[t].pc = "return"
    /\ threads' = [threads EXCEPT ![t].pc = "outside",
                                  ![t].local = None,
                                  ![t].result = Some(globals._renderer)]
    /\ UNCHANGED <<data, templates_dir, last, current_year, prev, pipe,
                   globals>>

NextRenderer ==
    \E t \in Threads :
        \/ Call(t)
        \/ Test(t)
        \/ Construct(t)
        \/ Assign(t)
        \/ Return(t)

SpecRenderer == InitRenderer /\ [][NextRenderer]_vars

Returned(t) == threads[t].result # None

\* C25: every call of get_renderer returns a renderer, never None; a thread
\* constructs a renderer at most once, and that is all a racing first use
\* adds; calls entered once a renderer is set and no call is under way all
\* return the renderer that was set then, the same for every thread
C25_FirstUseIdempotent ==
    \A t \in Threads :
        /\ threads[t].built <= 1
        /\ Returned(t) =>
            /\ Val(threads[t].result) # None
            /\ threads[t].settled # None =>
                /\ Val(threads[t].result) = threads[t].settled
                /\ \A u \in Threads :
                        (Returned(u) /\ threads[u].settled # None) =>
                            Val(threads[u].result) = Val(threads[t].result)

\* two threads raced and each constructed a renderer; the later calls of both
\* returned one and the same
C25_Witness ==
    /\ \A t \in Threads : threads[t].built = 1 /\ Returned(t)
    /\ \A t \in Threads : threads[t].settled # None
    /\ \A t, u \in Threads : threads[t].result = threads[u].result

(***************************************************************************)
(* Logging level of a command-line run                                     *)
(***************************************************************************)

\* logging.DEBUG .. logging.ERROR
LevelNo == [DEBUG |-> 10, INFO |-> 20, WARNING |-> 30, ERROR |-> 40]

DEFAULT_LEVEL == "INFO"

\* configure_logging(level): nothing once _configured is set, else the
\* project logger takes the level and _configured is set
configure_logging(g, level) ==
    IF g._configured THEN g
    ELSE [g EXCEPT !.level = level, !._configured = TRUE]

\* get_logger(name), for what it does to the module-level names
get_logger(g) ==
    IF ~g._configured THEN configure_logging(g, DEFAULT_LEVEL) ELSE g

\* the mode (--example or --input, one of them required) and --verbose /
\* --quiet as parse_args returns them
CliArgs == [mode : {"example", "input"}, verbose : BOOLEAN, quiet : BOOLEAN]

\* the level main() asks for
RequestedLevel(args) ==
    IF args.quiet THEN "ERROR"
    ELSE IF args.verbose THEN "DEBUG"
    ELSE "INFO"

Main == threads.main

InitLogging ==
    /\ data \in {d \in DetDocs : /\ d.content = None
                                  /\ d.brand = None
                                  /\ d.render.variant_id = 0
                                  /\ d.render.template_type = "saas"}
    /\ templates_dir = AllTemplateFiles
    /\ last = NoCall
    /\ current_year = 2026
    /\ prev = NoCall
    /\ pipe = Idle
    /\ globals = ModuleState
    /\ threads = [main |-> [pc |-> "start", args |-> None,
                            called |-> {}, emitted |-> {}]]

\* main.py runs `from core.renderer import ...`; renderer.py runs
\* `logger = get_logger(__name__)`
ImportRenderer ==
    /\ Main.pc = "start"
    /\ globals' = get_logger(globals)
    /\ threads' = [threads EXCEPT !.main.pc = "renderer_imported"]
    /\ UNCHANGED <<data, templates_dir, last, current_year, prev, pipe>>

\* main.py runs its own `logger = get_logger(__name__)`
ImportMain ==
    /\ Main.pc = "renderer_imported"
    /\ globals' = get_logger(globals)
    /\ threads' = [threads EXCEPT !.main.pc = "imported"]
    /\ UNCHANGED <<data, templates_dir, last, current_year, prev, pipe>>

\* main(): args = parse_args()
ParseArgs ==
    \E args \in CliArgs :
        /\ Main.pc = "imported"
        /\ threads' = [threads EXCEPT !.main.pc = "parsed",
                                      !.main.args = Some(args)]
        /\ UNCHANGED <<data, templates_dir, last, current_year, prev, pipe,
                       globals>>

\* main(): the level is chosen and configure_logging(level=level, ...) called
MainConfigure ==
    /\ Main.pc = "parsed"
    /\ globals' = configure_logging(globals, RequestedLevel(Val(Main.args)))
    /\ threads' = [threads EXCEPT !.main.pc = "configured"]
    /\ UNCHANGED <<data, templates_dir, last, current_year, prev, pipe>>

\* the selected mode runs: logger.debug / info / warning / error, handled
\* when the level of the call reaches the level of the project logger
Log ==
    \E l \in DOMAIN LevelNo :
        /\ Main.pc = "configured"
        /\ l \notin Main.called
        /\ threads' = [threads EXCEPT
                            !.main.called = @ \cup {l},
                            !.main.emitted =
                                IF LevelNo[l] >= LevelNo[globals.level]
                                THEN @ \cup {l} ELSE @]
        /\ UNCHANGED <<data, templates_dir, last, current_year, prev, pipe,
                       globals>>

NextLogging ==
    \/ ImportRenderer
    \/ ImportMain
    \/ ParseArgs
    \/ MainConfigure
    \/ Log

SpecLogging == InitLogging /\ [][NextLogging]_vars

\* C27: once main() has configured logging, the project logger's level is
\* ERROR with --quiet, else DEBUG with --verbose, else INFO
C27_RequestedLevelInForce ==
    Main.pc = "configured" =>
        globals.level = RequestedLevel(Val(Main.args))

====
